---- MODULE Spec2Model ----
(***************************************************************************)
(* Source ranges of the ASTScope tree (lib/AST/ASTScopeSourceRange.cpp):   *)
(* computing a scope's range from its own syntax, its ignored AST nodes    *)
(* and its children, caching it, clearing the cache along the ancestor     *)
(* chain, and verifying containment and sibling order.                     *)
(*                                                                         *)
(* A SourceLoc is a natural number; 0 is the invalid location (SourceLoc() *)
(* wraps a null pointer and locations of one buffer compare as pointers).  *)
(* The model is of a build with assertions enabled: a failed assert and    *)
(* abort() both end the program, which is recorded in the variable fatal.  *)
(***************************************************************************)
EXTENDS Integers, Sequences, FiniteSets

\* ---------------------------------------------------------------- bounds
MaxNodes == 3
MaxLoc == 2
MaxWalk == 2
MaxTreeWidens == 1
MaxWidens == 3
MaxCondLoc == 3
MaxConds == 2

VARIABLES
  parent,                        \* ASTScopeImpl::parent, 0 at the root
  children,                      \* ASTScopeImpl::storedChildren, in insertion order
  childless,                     \* what getChildlessSourceRange() returns for the scope
  sourceRangeOfIgnoredASTNodes,  \* per scope
  cachedSourceRange,             \* per scope, an Optional<SourceRange>
  fatal,                         \* the assert or abort() that ended the program
  returned,                      \* what getSourceRange returned, when it was the call made last
  pre,                           \* the scope clearCachedSourceRangesOfAncestors was last called
                                 \* on and cachedSourceRange before that call, kept while the
                                 \* only call since is cacheSourceRangesOfAncestors on that scope
  passed,                        \* per scope, the effective ranges of the nodes handed to
                                 \* widenSourceRangeForIgnoredASTNode that were not created directly
  widened,                       \* the number of widenSourceRangeForIgnoredASTNode calls made
  clause,                        \* the conditional clause scope whose range was asked for
  clauseRange                    \* what its getChildlessSourceRange() returned

vars == <<parent, children, childless, sourceRangeOfIgnoredASTNodes,
          cachedSourceRange, fatal, returned, pre, passed, widened, clause,
          clauseRange>>

\* ------------------------------------------------- SourceLoc, SourceRange
Locs == 1..MaxLoc

SourceLoc == 0

isValidLoc(l) == l # 0

SourceRange(s, e) == [Start |-> s, End |-> e]

SourceRange1(l) == SourceRange(l, l)

InvalidRange == SourceRange(SourceLoc, SourceLoc)

ValidRanges == {r \in [Start : Locs, End : Locs] : r.Start <= r.End}

isValid(r) == isValidLoc(r.Start)

isInvalid(r) == ~isValid(r)

isBeforeInBuffer(a, b) == a < b

widen(r, other) ==
  [Start |-> IF other.Start < r.Start THEN other.Start ELSE r.Start,
   End   |-> IF other.End > r.End THEN other.End ELSE r.End]

rangeContains(enclosing, inner) ==
  /\ ~isBeforeInBuffer(inner.Start, enclosing.Start)
  /\ ~isBeforeInBuffer(enclosing.End, inner.End)

\* Optional<SourceRange>
None == [hasValue |-> FALSE, value |-> InvalidRange]

Some(r) == [hasValue |-> TRUE, value |-> r]

\* ------------------------------------------------------------- the program end
NoFatal == [node |-> 0, reason |-> "none"]

Fatal(n, why) == [node |-> n, reason |-> why]

Running == fatal = NoFatal

Scopes == DOMAIN parent

Root == 1

getChildren(n) == children[n]

getParent(n) == parent[n]

\* What a const member function hands back: a value, or the program's end.
Ret(v) == [ok |-> TRUE, value |-> v, fatal |-> NoFatal]

Abort(n, why) == [ok |-> FALSE, value |-> FALSE, fatal |-> Fatal(n, why)]

\* ------------------------------------------------ getSourceRange and recompute
\* c is the cachedSourceRange of every scope at the time of the call.
getSourceRange(c, n, forDebugging) ==
  IF forDebugging /\ ~c[n].hasValue
    THEN Ret(InvalidRange)
    ELSE IF ~c[n].hasValue
      THEN Abort(n, "should have been cached after last expandMe")
      ELSE Ret(c[n].value)

getUncachedSourceRange(c, n, forDebugging) ==
  LET ownRange == childless[n]
      childlessRange == IF isValid(sourceRangeOfIgnoredASTNodes[n])
                          THEN widen(ownRange, sourceRangeOfIgnoredASTNodes[n])
                          ELSE ownRange
  IN IF getChildren(n) = <<>>
       THEN IF isValidLoc(childlessRange.Start)
              THEN Ret(childlessRange)
              ELSE Abort(n, "childlessRange.Start.isValid()")
       ELSE LET front == getSourceRange(c, Head(getChildren(n)), forDebugging)
                back == getSourceRange(c, getChildren(n)[Len(getChildren(n))], forDebugging)
            IN IF ~front.ok THEN front
               ELSE IF ~(forDebugging \/ isValidLoc(front.value.Start))
                 THEN Abort(n, "forDebugging || childStart.isValid()")
               ELSE IF ~back.ok THEN back
               ELSE LET childRange == SourceRange(front.value.Start, back.value.End)
                    IN IF ~isValidLoc(childlessRange.Start)
                         THEN Ret(childRange)
                         ELSE Ret(widen(childRange, childlessRange))

\* ------------------------------------------------------------------ validation
hasValidSourceRange(c, n) ==
  LET r == getSourceRange(c, n, FALSE)
  IN IF ~r.ok THEN r
     ELSE Ret(/\ isValidLoc(r.value.Start)
              /\ isValidLoc(r.value.End)
              /\ ~isBeforeInBuffer(r.value.End, r.value.Start))

\* Mutant: the two scopes are compared by their starts.
precedesInSource_byStart(c, n, next) ==
  LET mine == hasValidSourceRange(c, n)
  IN IF ~mine.ok THEN mine
     ELSE IF ~mine.value THEN Ret(FALSE)
     ELSE LET theirs == hasValidSourceRange(c, next)
          IN IF ~theirs.ok THEN theirs
             ELSE IF ~theirs.value THEN Ret(FALSE)
             ELSE Ret(~isBeforeInBuffer(c[next].value.Start, c[n].value.Start))

precedesInSource(c, n, next) ==
  LET mine == hasValidSourceRange(c, n)
  IN IF ~mine.ok THEN mine
     ELSE IF ~mine.value THEN Ret(FALSE)
     ELSE LET theirs == hasValidSourceRange(c, next)
          IN IF ~theirs.ok THEN theirs
             ELSE IF ~theirs.value THEN Ret(FALSE)
             ELSE Ret(~isBeforeInBuffer(c[next].value.Start, c[n].value.End))

verifyThatChildrenAreContained(c, n) ==
  IF getChildren(n) = <<>>
    THEN Ret(TRUE)
    ELSE LET front == getSourceRange(c, Head(getChildren(n)), FALSE)
             back == getSourceRange(c, getChildren(n)[Len(getChildren(n))], FALSE)
             mine == getSourceRange(c, n, FALSE)
         IN IF ~front.ok THEN front
            ELSE IF ~back.ok THEN back
            ELSE IF ~mine.ok THEN mine
            ELSE IF rangeContains(mine.value, SourceRange(front.value.Start, back.value.End))
              THEN Ret(TRUE)
              ELSE Abort(n, "children not contained in its parent")

\* 0 stands for the null pointer.
getPriorSibling(n) ==
  IF getParent(n) = 0
    THEN 0
    ELSE LET siblingsAndMe == getChildren(getParent(n))
             myIndex == CHOOSE i \in 1..Len(siblingsAndMe) : siblingsAndMe[i] = n
         IN IF myIndex = 1 THEN 0 ELSE siblingsAndMe[myIndex - 1]

verifyThatThisNodeComeAfterItsPriorSibling(c, n) ==
  LET priorSibling == getPriorSibling(n)
  IN IF priorSibling = 0
       THEN Ret(TRUE)
       ELSE LET before == precedesInSource(c, priorSibling, n)
            IN IF ~before.ok THEN before
               ELSE IF before.value THEN Ret(TRUE)
               ELSE Abort(n, "unexpected out-of-order nodes")

\* Mutant: the order after the prior sibling is not verified.
verifySourceRange_containmentOnly(c, n) == verifyThatChildrenAreContained(c, n)

verifySourceRange(c, n) ==
  LET contained == verifyThatChildrenAreContained(c, n)
  IN IF ~contained.ok THEN contained
     ELSE verifyThatThisNodeComeAfterItsPriorSibling(c, n)

\* ------------------------------------------------------- source range caching
\* The caching and clearing functions hand back the cache they leave behind.
Pass(c, f) == [cache |-> c, fatal |-> f]

\* Mutant: a scope whose cache holds a value is not recomputed.
cacheSourceRange_ifAbsent(c, n) ==
  IF c[n].hasValue
    THEN Pass(c, verifySourceRange(c, n).fatal)
    ELSE LET fresh == getUncachedSourceRange(c, n, FALSE)
         IN IF ~fresh.ok
              THEN Pass(c, fresh.fatal)
              ELSE LET stored == [c EXCEPT ![n] = Some(fresh.value)]
                   IN Pass(stored, verifySourceRange(stored, n).fatal)

cacheSourceRange(c, n) ==
  LET fresh == getUncachedSourceRange(c, n, FALSE)
  IN IF ~fresh.ok
       THEN Pass(c, fresh.fatal)
       ELSE LET stored == [c EXCEPT ![n] = Some(fresh.value)]
            IN Pass(stored, verifySourceRange(stored, n).fatal)

clearSourceRangeCache(c, n) == [c EXCEPT ![n] = Some(SourceRange1(SourceLoc))]

\* Mutant: the pass stops at the scope itself and does not go on to the parent.
cacheSourceRangesOfAncestors_selfOnly(c, n) == cacheSourceRange(c, n)

RECURSIVE cacheSourceRangesOfAncestors(_, _)
cacheSourceRangesOfAncestors(c, n) ==
  LET mine == cacheSourceRange(c, n)
  IN IF mine.fatal # NoFatal THEN mine
     ELSE IF getParent(n) # 0
       THEN cacheSourceRangesOfAncestors(mine.cache, getParent(n))
       ELSE mine

\* Mutant: the cache of every scope of the tree is cleared.
clearCachedSourceRangesOfAncestors_wholeTree(c, n) ==
  [m \in DOMAIN c |-> Some(SourceRange1(SourceLoc))]

\* Mutant: the parent chain is not followed.
clearCachedSourceRangesOfAncestors_selfOnly(c, n) == clearSourceRangeCache(c, n)

RECURSIVE clearCachedSourceRangesOfAncestors(_, _)
clearCachedSourceRangesOfAncestors(c, n) ==
  LET mine == clearSourceRangeCache(c, n)
  IN IF getParent(n) # 0
       THEN clearCachedSourceRangesOfAncestors(mine, getParent(n))
       ELSE mine

\* ------------------------------------------------------------- ignored nodes
\* An ASTNode handed to widenSourceRangeForIgnoredASTNode. For a Decl or a Stmt
\* range is its getSourceRange(); for an Expr range.Start is its getLoc(),
\* range.End its getEndLoc(), and walk lists, in the order the ASTWalker visits
\* them, the trailing quote or angle bracket locations of the interpolated
\* string literals and editor placeholders under it.
Walks == UNION {[1..k -> Locs] : k \in 0..MaxWalk}

ASTNodes ==
  {[kind |-> "Decl", createdDirectly |-> d, range |-> r, walk |-> <<>>] :
      d \in BOOLEAN, r \in ValidRanges \cup {InvalidRange}}
  \cup {[kind |-> "Stmt", createdDirectly |-> FALSE, range |-> r, walk |-> <<>>] :
      r \in ValidRanges \cup {InvalidRange}}
  \cup {[kind |-> "Expr", createdDirectly |-> FALSE, range |-> r, walk |-> w] :
      r \in ValidRanges, w \in Walks}

isCreatedDirectly(a) == a.createdDirectly

RECURSIVE EffectiveEndFinder(_, _)
EffectiveEndFinder(end, walk) ==
  IF walk = <<>>
    THEN end
    ELSE EffectiveEndFinder(
           IF ~isValidLoc(end) \/ isBeforeInBuffer(end, Head(walk)) THEN Head(walk) ELSE end,
           Tail(walk))

getEffectiveSourceRange(a) ==
  IF a.kind = "Decl" THEN a.range
  ELSE IF a.kind = "Stmt" THEN a.range
  ELSE LET trailingQuoteLoc == EffectiveEndFinder(SourceLoc, a.walk)
       IN SourceRange(a.range.Start,
                      IF isValidLoc(trailingQuoteLoc) THEN trailingQuoteLoc ELSE a.range.End)

\* Mutant: a later call replaces the range instead of widening it.
widenSourceRangeForIgnoredASTNode_overwrite(ignored, a) ==
  IF isCreatedDirectly(a)
    THEN ignored
    ELSE LET r == getEffectiveSourceRange(a)
         IN IF isInvalid(r) THEN ignored ELSE r

\* The scope's sourceRangeOfIgnoredASTNodes after the call, from the one before.
widenSourceRangeForIgnoredASTNode(ignored, a) ==
  IF isCreatedDirectly(a)
    THEN ignored
    ELSE LET r == getEffectiveSourceRange(a)
         IN IF isInvalid(r) THEN ignored
            ELSE IF isInvalid(ignored) THEN r
            ELSE widen(ignored, r)

\* ------------------------------------------------- conditional clause scopes
\* A conditional clause scope: the statement kind, the statement's condition
\* elements (kind and start location), the scope's index into them (from 0, as
\* in the source) and the block: the 'then' statement of an if, the body of a
\* while or a guard.
ConditionKinds == {"CK_Boolean", "CK_Availability", "CK_PatternBinding"}

ConditionElements == [kind : ConditionKinds, startLoc : 0..MaxCondLoc]

Blocks == {r \in [Start : 1..MaxCondLoc, End : 1..MaxCondLoc] : r.Start <= r.End}

Clauses ==
  UNION {[stmt : {"If", "While", "Guard"}, cond : [1..k -> ConditionElements],
          index : 0..(k - 1), block : Blocks] : k \in 1..MaxConds}

NoClause == [stmt |-> "none", cond |-> <<>>, index |-> 0, block |-> InvalidRange]

\* Mutant: a pattern binding starts the clause at its own start too.
startLocAccordingToCondition_ownStart(s) == s.cond[s.index + 1].startLoc

startLocAccordingToCondition(s) ==
  LET conditionals == s.cond
      cond == conditionals[s.index + 1]
  IN IF cond.kind \in {"CK_Boolean", "CK_Availability"}
       THEN cond.startLoc
       ELSE IF s.index + 1 < Len(conditionals)
         THEN conditionals[s.index + 2].startLoc
         ELSE SourceLoc

WhileConditionalClauseScope_getChildlessSourceRange(s) ==
  LET loc == startLocAccordingToCondition(s)
      startLoc == IF ~isValidLoc(loc) THEN s.block.Start ELSE loc
  IN SourceRange(startLoc, s.block.End)

IfConditionalClauseScope_getChildlessSourceRange(s) ==
  LET loc == startLocAccordingToCondition(s)
      startLoc == IF ~isValidLoc(loc) THEN s.block.Start ELSE loc
  IN SourceRange(startLoc, s.block.End)

GuardConditionalClauseScope_getChildlessSourceRange(s) ==
  LET loc == startLocAccordingToCondition(s)
      startLoc == IF ~isValidLoc(loc) THEN s.block.Start ELSE loc
  IN SourceRange(startLoc, s.block.Start)

getChildlessSourceRange(s) ==
  IF s.stmt = "While" THEN WhileConditionalClauseScope_getChildlessSourceRange(s)
  ELSE IF s.stmt = "If" THEN IfConditionalClauseScope_getChildlessSourceRange(s)
  ELSE GuardConditionalClauseScope_getChildlessSourceRange(s)

\* --------------------------------------------------------------- the calls
NoPre == [node |-> 0, cache |-> <<>>, recached |-> FALSE]

\* What the rule table can return for a scope: a range, or none.
ChildlessRanges == ValidRanges \cup {InvalidRange}

\* The nodes the tree builder skips while it builds the tree.
SkippedNodes == {a \in ASTNodes : Len(a.walk) <= 1}

Init ==
  /\ parent = <<0>>
  /\ children = << <<>> >>
  /\ childless \in {<<r>> : r \in ChildlessRanges}
  /\ sourceRangeOfIgnoredASTNodes = <<InvalidRange>>
  /\ cachedSourceRange = <<None>>
  /\ fatal = NoFatal
  /\ returned = None
  /\ pre = NoPre
  /\ passed = << {} >>
  /\ widened = 0
  /\ clause = NoClause
  /\ clauseRange = InvalidRange

\* The tree builder appends a new scope to p's children.
AddChild(p, r) ==
  /\ Running
  /\ Len(parent) < MaxNodes
  /\ parent' = Append(parent, p)
  /\ children' = Append([children EXCEPT ![p] = Append(@, Len(parent) + 1)], <<>>)
  /\ childless' = Append(childless, r)
  /\ sourceRangeOfIgnoredASTNodes' = Append(sourceRangeOfIgnoredASTNodes, InvalidRange)
  /\ cachedSourceRange' = Append(cachedSourceRange, None)
  /\ passed' = Append(passed, {})
  /\ returned' = None
  /\ pre' = NoPre
  /\ UNCHANGED <<fatal, widened, clause, clauseRange>>

WidenIgnored(n, a, limit) ==
  /\ Running
  /\ widened < limit
  /\ widened' = widened + 1
  /\ sourceRangeOfIgnoredASTNodes' =
       [sourceRangeOfIgnoredASTNodes EXCEPT ![n] = widenSourceRangeForIgnoredASTNode(@, a)]
  /\ passed' = [passed EXCEPT ![n] =
                  IF a.createdDirectly THEN @ ELSE @ \cup {getEffectiveSourceRange(a)}]
  /\ returned' = None
  /\ pre' = NoPre
  /\ UNCHANGED <<parent, children, childless, cachedSourceRange, fatal, clause,
                 clauseRange>>

CacheAncestors(n) ==
  /\ Running
  /\ LET done == cacheSourceRangesOfAncestors(cachedSourceRange, n)
     IN /\ cachedSourceRange' = done.cache
        /\ fatal' = done.fatal
  /\ returned' = None
  /\ pre' = IF pre # NoPre /\ ~pre.recached /\ pre.node = n
              THEN [pre EXCEPT !.recached = TRUE]
              ELSE NoPre
  /\ UNCHANGED <<parent, children, childless, sourceRangeOfIgnoredASTNodes, passed,
                 widened, clause, clauseRange>>

ClearAncestors(n) ==
  /\ Running
  /\ cachedSourceRange' = clearCachedSourceRangesOfAncestors(cachedSourceRange, n)
  /\ returned' = None
  /\ pre' = [node |-> n, cache |-> cachedSourceRange, recached |-> FALSE]
  /\ UNCHANGED <<parent, children, childless, sourceRangeOfIgnoredASTNodes, fatal,
                 passed, widened, clause, clauseRange>>

QuerySourceRange(n, forDebugging) ==
  /\ Running
  /\ LET got == getSourceRange(cachedSourceRange, n, forDebugging)
     IN /\ fatal' = got.fatal
        /\ returned' = IF got.ok THEN Some(got.value) ELSE None
  /\ pre' = NoPre
  /\ UNCHANGED <<parent, children, childless, sourceRangeOfIgnoredASTNodes,
                 cachedSourceRange, passed, widened, clause, clauseRange>>

Next ==
  \/ \E p \in Scopes, r \in ChildlessRanges : AddChild(p, r)
  \/ \E n \in Scopes, a \in SkippedNodes : WidenIgnored(n, a, MaxTreeWidens)
  \/ \E n \in Scopes : CacheAncestors(n)
  \/ \E n \in Scopes : ClearAncestors(n)
  \/ \E n \in Scopes, d \in BOOLEAN : QuerySourceRange(n, d)

Spec == Init /\ [][Next]_vars

\* One scope, and the tree builder handing it one skipped node after another.
NextWiden == \E a \in ASTNodes : WidenIgnored(Root, a, MaxWidens)

SpecWiden == Init /\ [][NextWiden]_vars

\* A conditional clause scope is asked for its childless range.
ComputeClause(s) ==
  /\ clause = NoClause
  /\ clause' = s
  /\ clauseRange' = getChildlessSourceRange(s)
  /\ UNCHANGED <<parent, children, childless, sourceRangeOfIgnoredASTNodes,
                 cachedSourceRange, fatal, returned, pre, passed, widened>>

NextCond == clause = NoClause /\ \E s \in Clauses : ComputeClause(s)

SpecCond == Init /\ [][NextCond]_vars

\* ------------------------------------------------------------ the properties
\* n and its ancestors, up to the root.
RECURSIVE Chain(_)
Chain(n) == IF parent[n] = 0 THEN {n} ELSE {n} \cup Chain(parent[n])

IsLeaf(n) == children[n] = <<>>

FirstChild(n) == children[n][1]

LastChild(n) == children[n][Len(children[n])]

\* The scope holds a range a caching pass stored: a pass stores no range whose
\* start is invalid, and clearing leaves a present, invalid range behind.
Computed(c, n) == c[n].hasValue /\ isValid(c[n].value)

\* The state after cacheSourceRangesOfAncestors(n) returned.
CachePassDone(n) == CacheAncestors(n) /\ fatal' = NoFatal

\* {min start, max end} of the valid ranges of a set, the invalid range if none.
UnionOfValid(S) ==
  LET V == {r \in S : r.Start # 0 /\ r.End # 0}
  IN IF V = {} THEN InvalidRange
     ELSE [Start |-> CHOOSE x \in {r.Start : r \in V} : \A y \in {r.Start : r \in V} : x <= y,
           End   |-> CHOOSE x \in {r.End : r \in V} : \A y \in {r.End : r \in V} : x >= y]

ContainsChildren(c, m) ==
  /\ c[m].hasValue /\ c[FirstChild(m)].hasValue /\ c[LastChild(m)].hasValue
  /\ c[m].value.Start <= c[FirstChild(m)].value.Start
  /\ c[LastChild(m)].value.End <= c[m].value.End

ComesAfterPrior(c, m) ==
  \A p \in Scopes : \A i \in 1..(Len(children[p]) - 1) :
    children[p][i + 1] = m =>
      /\ Computed(c, children[p][i]) /\ Computed(c, m)
      /\ c[children[p][i]].value.End <= c[m].value.Start

\* C1: after cacheAncestors(n) completes without a fatal failure, n and every
\* ancestor of n that has children has a cached range that contains the range
\* from its first child's cached start to its last child's cached end.
C1_ChildrenContainedAfterCaching ==
  [][\A n \in Scopes : CachePassDone(n) =>
       \A m \in Chain(n) : ~IsLeaf(m) => ContainsChildren(cachedSourceRange', m)]_vars

\* A scope with two children, all three holding ranges a pass stored, the
\* parent's range strictly wider than what its children span.
C1_Witness ==
  /\ Running
  /\ \E m \in Scopes :
       /\ Len(children[m]) = 2
       /\ \A k \in {m, FirstChild(m), LastChild(m)} : Computed(cachedSourceRange, k)
       /\ ContainsChildren(cachedSourceRange, m)
       /\ cachedSourceRange[m].value.Start < cachedSourceRange[FirstChild(m)].value.Start

\* C2 as claimed: in every state reached without a fatal failure, every pair
\* of adjacent siblings whose ranges are both cached is in order, the first
\* ending at or before the start of the second.
C2_AllAdjacentSiblingsOrdered ==
  Running =>
    \A p \in Scopes : \A i \in 1..(Len(children[p]) - 1) :
      (Computed(cachedSourceRange, children[p][i])
         /\ Computed(cachedSourceRange, children[p][i + 1]))
      => cachedSourceRange[children[p][i]].value.End
           <= cachedSourceRange[children[p][i + 1]].value.Start

\* C2 as amended: when cacheAncestors(n) completes without a fatal failure,
\* every scope on the chain from n to the root that has a prior sibling starts
\* at or after the end of that prior sibling's cached range.
C2_ChainComesAfterPriorSiblings ==
  [][\A n \in Scopes : CachePassDone(n) =>
       \A m \in Chain(n) : ComesAfterPrior(cachedSourceRange', m)]_vars

\* A second child cached in order after its prior sibling, with the parent.
C2_Witness ==
  /\ Running
  /\ \E p \in Scopes :
       /\ Len(children[p]) = 2
       /\ Computed(cachedSourceRange, p)
       /\ ComesAfterPrior(cachedSourceRange, LastChild(p))
       /\ cachedSourceRange[FirstChild(p)].value.End
            < cachedSourceRange[LastChild(p)].value.Start

\* C3: immediately after cacheAncestors(n) completes, the cached range of n
\* and of every ancestor of n up to the root equals what recomputing that
\* scope's range returns.
C3_CachedEqualsRecompute ==
  [][\A n \in Scopes : CachePassDone(n) =>
       \A m \in Chain(n) :
         LET again == getUncachedSourceRange(cachedSourceRange', m, FALSE)
         IN again.ok /\ cachedSourceRange'[m] = Some(again.value)]_vars

\* A chain of three scopes, each widened by the range of the scope under it.
C3_Witness ==
  /\ Running
  /\ \E m \in Scopes :
       /\ parent[m] # 0 /\ parent[parent[m]] # 0
       /\ \A k \in Chain(m) :
            /\ Computed(cachedSourceRange, k)
            /\ cachedSourceRange[k] = Some(getUncachedSourceRange(cachedSourceRange, k, FALSE).value)
       /\ cachedSourceRange[parent[m]].value # childless[parent[m]]

\* The ranges the chain from n to the root held before the clearing call were
\* what recomputing them returned then.
FreshBeforeClearing(n) ==
  \A m \in Chain(n) :
    LET again == getUncachedSourceRange(pre.cache, m, FALSE)
    IN again.ok /\ pre.cache[m] = Some(again.value)

\* C4 as claimed: from a tree where a leaf and all of its ancestors hold ranges
\* stored by a caching pass, invalidateAncestors(leaf) followed by
\* cacheAncestors(leaf) leaves every node with the cached range it had before.
C4_RecachingRestoresStoredRanges ==
  (/\ pre.recached
   /\ IsLeaf(pre.node)
   /\ \A m \in Chain(pre.node) : Computed(pre.cache, m))
  => cachedSourceRange = pre.cache

\* C4 as amended: from a tree where the cached range of a leaf and of each of
\* its ancestors equals a fresh recompute, invalidateAncestors(leaf) followed
\* by a cacheAncestors(leaf) that completes without a fatal failure leaves
\* every node with the cached range it had before.
C4_RecachingRestoresFreshRanges ==
  (/\ pre.recached
   /\ Running
   /\ IsLeaf(pre.node)
   /\ FreshBeforeClearing(pre.node))
  => cachedSourceRange = pre.cache

\* A leaf two levels under the root, widened before it was first cached, then
\* cleared and cached again.
C4_Witness ==
  /\ pre.recached
  /\ Running
  /\ IsLeaf(pre.node)
  /\ parent[pre.node] # 0
  /\ parent[parent[pre.node]] # 0
  /\ isValid(sourceRangeOfIgnoredASTNodes[pre.node])
  /\ FreshBeforeClearing(pre.node)
  /\ cachedSourceRange = pre.cache

\* The scope's range is not currently computed: it was never cached, or its
\* cache was cleared and it has not been cached again.
NotComputed(n) == ~Computed(cachedSourceRange, n)

\* C5 as claimed: a non-debugging query of a scope whose range is not computed
\* is a fatal error and returns no range, whether the scope was never cached
\* or its cache was cleared and not yet filled again.
C5_QueryOfUncomputedRangeIsFatal ==
  [][\A n \in Scopes : (QuerySourceRange(n, FALSE) /\ NotComputed(n)) =>
       (fatal' # NoFatal /\ returned' = None)]_vars

\* C6: invalidateAncestors(n) leaves no computed range on n and on the scopes
\* of n's parent chain, computes no range, and changes no other scope's cached
\* range, no ignored-node range and no child list.
C6_ClearingTouchesOnlyTheChain ==
  [][\A n \in Scopes : ClearAncestors(n) =>
       /\ \A m \in Chain(n) : ~Computed(cachedSourceRange', m)
       /\ \A m \in Scopes \ Chain(n) : cachedSourceRange'[m] = cachedSourceRange[m]
       /\ \A m \in Scopes : Computed(cachedSourceRange', m) => Computed(cachedSourceRange, m)
       /\ DOMAIN cachedSourceRange' = Scopes
       /\ sourceRangeOfIgnoredASTNodes' = sourceRangeOfIgnoredASTNodes
       /\ children' = children
       /\ parent' = parent
       /\ fatal' = fatal]_vars

\* The chain of a cleared scope that has a parent holds no computed range
\* while its sibling still holds the one it had.
C6_Witness ==
  /\ pre.node # 0 /\ ~pre.recached
  /\ parent[pre.node] # 0
  /\ \A m \in Chain(pre.node) : Computed(pre.cache, m) /\ ~Computed(cachedSourceRange, m)
  /\ \E m \in Scopes \ Chain(pre.node) :
       /\ parent[m] = parent[pre.node]
       /\ Computed(cachedSourceRange, m)
       /\ isValid(sourceRangeOfIgnoredASTNodes[m])

\* C7: after any sequence of widen calls on a scope, its accumulated
\* ignored-node range is the union {min start, max end} of the effective
\* ranges of the skipped nodes passed so far that were not directly-created
\* pattern-binding nodes; with none passed it is still unset.
C7_IgnoredRangeIsUnionOfPassed ==
  \A n \in Scopes : sourceRangeOfIgnoredASTNodes[n] = UnionOfValid(passed[n])

\* Three calls on one scope: one with a directly-created node, two with nodes
\* whose effective ranges differ and are both kept in the union.
C7_Witness ==
  /\ widened = 3
  /\ Cardinality(passed[Root]) = 2
  /\ \A r \in passed[Root] : isValid(r) /\ r # sourceRangeOfIgnoredASTNodes[Root]
  /\ sourceRangeOfIgnoredASTNodes[Root] = UnionOfValid(passed[Root])

VerifierReasons == {"children not contained in its parent", "unexpected out-of-order nodes"}

\* C8: a caching pass that finds the range it just stored for a scope to
\* violate containment of the children or the order after the prior sibling
\* ends there: the failing scope is on the chain and holds the range just
\* stored, no scope above it is recomputed or stored, an order failure is
\* reported only for a scope that contains its children, and a pass that
\* completes leaves neither violation on the chain it processed.
C8_ViolationEndsThePass ==
  [][\A n \in Scopes : CacheAncestors(n) =>
       /\ (fatal'.reason \in VerifierReasons =>
            /\ fatal'.node \in Chain(n)
            /\ cachedSourceRange'[fatal'.node]
                 = Some(getUncachedSourceRange(cachedSourceRange', fatal'.node, FALSE).value)
            /\ \A a \in Chain(fatal'.node) \ {fatal'.node} :
                 cachedSourceRange'[a] = cachedSourceRange[a]
            /\ \/ ~ComesAfterPrior(cachedSourceRange', fatal'.node)
               \/ (~IsLeaf(fatal'.node) /\ ~ContainsChildren(cachedSourceRange', fatal'.node))
            /\ (fatal'.reason = "unexpected out-of-order nodes" =>
                  (IsLeaf(fatal'.node) \/ ContainsChildren(cachedSourceRange', fatal'.node))))
       /\ (fatal' = NoFatal =>
            \A m \in Chain(n) :
              /\ IsLeaf(m) \/ ContainsChildren(cachedSourceRange', m)
              /\ ComesAfterPrior(cachedSourceRange', m))]_vars

\* A pass ended at a second child, out of order after its prior sibling, with
\* the range just stored in it and the parent left as it was.
C8_Witness ==
  /\ fatal.reason = "unexpected out-of-order nodes"
  /\ parent[fatal.node] # 0
  /\ Computed(cachedSourceRange, fatal.node)
  /\ Computed(cachedSourceRange, parent[fatal.node])
  /\ ~ComesAfterPrior(cachedSourceRange, fatal.node)

\* The terms recompute(m) is claimed to unite.
RecomputeTerms(c, m) ==
  {childless[m], sourceRangeOfIgnoredASTNodes[m]}
    \cup (IF IsLeaf(m) THEN {}
           ELSE {SourceRange(c[FirstChild(m)].value.Start, c[LastChild(m)].value.End)})

\* C9 as claimed: the range a caching pass computes and stores for a scope is
\* the union {min start, max end} of every valid term among its childless
\* range, its ignored-node range and, when it has children, the range from
\* its first child's cached start to its last child's cached end.
C9_RecomputeIsUnionOfValidTerms ==
  [][\A n \in Scopes : CachePassDone(n) =>
       \A m \in Chain(n) :
         cachedSourceRange'[m] = Some(UnionOfValid(RecomputeTerms(cachedSourceRange', m)))]_vars

\* Where the clause's own condition puts its start, 0 when it gives none: a
\* boolean or availability condition at its own start, a pattern binding at
\* the start of the condition after it.
ConditionLoc(s) ==
  IF s.cond[s.index + 1].kind # "CK_PatternBinding"
    THEN s.cond[s.index + 1].startLoc
    ELSE IF s.index + 2 <= Len(s.cond) THEN s.cond[s.index + 2].startLoc ELSE 0

ClauseStart(s) == IF ConditionLoc(s) # 0 THEN ConditionLoc(s) ELSE s.block.Start

====
